---- MODULE Spec2Model ----
(***************************************************************************)
(* Model of the incremental similarity clusterer of the comment            *)
(* processing system: performClustering (processor/clusterer.js) and the    *)
(* cosineSimilarity helper (utils.js).                                      *)
(*                                                                          *)
(* One behaviour is one call of performClustering on one input list.  Each  *)
(* iteration of its two loops is one step.                                  *)
(***************************************************************************)
EXTENDS Integers, Sequences, FiniteSets, TLC

VARIABLES
    commentsWithEmbeddings, \* the argument of performClustering
    clusters,               \* const clusters = []
    clusteredComments,      \* const clusteredComments = []
    pc,                     \* position in performClustering
    vi,                     \* index of the next element of validComments
    wi,                     \* index of the next element of commentsWithoutEmbeddings
    result,                 \* the returned array, once returned
    previous,               \* the array an earlier call returned, when its output is clustered again
    stage,                  \* position in the caller of performClustering
    comments,               \* the comments the caller works on
    clusterNames,           \* const clusterNames = {} of generateClusterNames
    failed,                 \* the calls that have thrown so far
    categorizedComments,    \* const categorizedComments = [] of categorizeComments
    featureIndex,           \* how many clusters identifyFeatures has visited
    clusterFeatures,        \* const clusterFeatures = {} of identifyFeatures
    allFeatures,            \* const allFeatures = [] of identifyFeatures
    commentsWithResponses,  \* const commentsWithResponses = [] of generateResponses
    resultsFile,            \* config.paths.resultsFile on disk
    saves,                  \* how often the results file has been written
    commentsFile,           \* config.paths.commentsFile on disk
    allowRegenerateComments,\* config.generator.allowRegenerateComments
    answer,                 \* what the user typed at the prompt
    loaded,                 \* the comments loadFromJson returned to main
    generateCalls,          \* how often generateComments has been called
    fallback,               \* whether the catch of lines 50-54 has run
    exitCode                \* the status of process.exit

\* the state of processComments around clusterComments
pipeline == <<categorizedComments, featureIndex, clusterFeatures, allFeatures,
              commentsWithResponses, resultsFile, saves>>

\* the state of main around processComments
entry == <<commentsFile, allowRegenerateComments, answer, loaded, generateCalls,
           fallback, exitCode>>

\* the callers of performClustering: clusterComments, processComments, main
caller == <<stage, comments, clusterNames, failed, pipeline, entry>>

\* what lies outside one call of performClustering
outer == <<previous, caller>>

vars == <<commentsWithEmbeddings, clusters, clusteredComments, pc, vi, wi, result, outer>>

(***************************************************************************)
(* Bounds.                                                                  *)
(***************************************************************************)
MaxLen == 4     \* longest input list of a call of performClustering
MaxNamed == 7   \* longest comment list of a call of clusterComments
MaxComments == 2 \* config.generator.numComments, scaled down

(***************************************************************************)
(* Optional properties of a JavaScript object: an absent property reads as  *)
(* undefined.                                                               *)
(***************************************************************************)
Undefined == [defined |-> FALSE]
Some(v) == [defined |-> TRUE, val |-> v]

(***************************************************************************)
(* Embedding vectors the inputs are drawn from.  The dot products and       *)
(* squared norms are small integers, which the doubles of the code hold     *)
(* exactly:                                                                 *)
(*   sim(P,Q) = 3/(2*2)       = 0.75   exactly the threshold                *)
(*   sim(Q,R) = 3/sqrt(12)    = 0.866                                       *)
(*   sim(P,R) = 2/sqrt(12)    = 0.577                                       *)
(*   sim(S,P) = 0, sim(S,Q) = 0.5, sim(S,R) = 0.577                         *)
(*   Z is the zero vector, M has another length.                            *)
(***************************************************************************)
VecP == <<1, 1, 1, 1, 0>>
VecQ == <<1, 1, 1, 0, 1>>
VecR == <<0, 1, 1, 0, 1>>
VecS == <<0, 0, 0, 0, 1>>
VecZ == <<0, 0, 0, 0, 0>>
VecM == <<1, 1>>
Vectors == {VecP, VecQ, VecR, VecS, VecZ, VecM}

Embeddings == {Undefined} \cup {Some(v) : v \in Vectors}

\* config.processor.clustering.similarityThreshold = 0.75 = 3/4
similarityThreshold == [num |-> 3, den |-> 4]

(***************************************************************************)
(* The values cosineSimilarity can return.  A value is the IEEE-754 double  *)
(* the code computes; it is kept as the exact quotient it stands for,       *)
(* sgn * sqrt(num/den) with num/den in lowest terms, and off, the sign of   *)
(* (the double - the exact quotient).  On the vectors above two values are  *)
(* equal as records iff they are the same double, the double is >= 0.75     *)
(* iff the quotient is > 3/4 or is 3/4 with off >= 0, and is <= 1 iff the   *)
(* quotient is < 1 or is 1 with off <= 0.                                   *)
(***************************************************************************)
RECURSIVE GCD(_, _)
GCD(a, b) == IF b = 0 THEN a ELSE GCD(b, a % b)

Zero == [sgn |-> 0, num |-> 0, den |-> 1, off |-> 0]
One  == [sgn |-> 1, num |-> 1, den |-> 1, off |-> 0]

\* the <<dotProduct, normA, normB>>, norms up to 4, for which the double
\* dotProduct / (Math.sqrt(normA) * Math.sqrt(normB)) is above the exact
\* quotient, e.g. 3 / (Math.sqrt(3) * Math.sqrt(3)) = 1.0000000000000002
RoundsUp ==
    {<<1, 1, 3>>, <<1, 3, 1>>, <<1, 3, 3>>, <<1, 3, 4>>, <<1, 4, 3>>, <<2, 3, 3>>,
     <<2, 3, 4>>, <<2, 4, 3>>, <<3, 3, 3>>, <<3, 3, 4>>, <<3, 4, 3>>}

\* those for which it is below, e.g. 2 / (Math.sqrt(2) * Math.sqrt(2)) =
\* 0.9999999999999998; for all others it is exact
RoundsDown ==
    {<<1, 1, 2>>, <<1, 2, 1>>, <<1, 2, 2>>, <<1, 2, 3>>, <<1, 2, 4>>, <<1, 3, 2>>,
     <<1, 4, 2>>, <<2, 2, 2>>, <<2, 2, 3>>, <<2, 2, 4>>, <<2, 3, 2>>, <<2, 4, 2>>}

\* dotProduct / (Math.sqrt(normA) * Math.sqrt(normB))
Quotient(dotProduct, normA, normB) ==
    IF dotProduct = 0 THEN Zero
    ELSE LET n == dotProduct * dotProduct
             d == normA * normB
             g == GCD(n, d)
         IN  [sgn |-> IF dotProduct > 0 THEN 1 ELSE -1, num |-> n \div g, den |-> d \div g,
              off |-> IF <<dotProduct, normA, normB>> \in RoundsUp THEN 1
                      ELSE IF <<dotProduct, normA, normB>> \in RoundsDown THEN -1
                      ELSE 0]

\* variant: the comparison written with > instead of >=
AtLeastStrict(similarity, t) ==
    /\ similarity.sgn = 1
    /\ \/ similarity.num * t.den * t.den > t.num * t.num * similarity.den
       \/ /\ similarity.num * t.den * t.den = t.num * t.num * similarity.den
          /\ similarity.off > 0

\* similarity >= similarityThreshold, the threshold being positive
AtLeast(similarity, t) ==
    /\ similarity.sgn = 1
    /\ \/ similarity.num * t.den * t.den > t.num * t.num * similarity.den
       \/ /\ similarity.num * t.den * t.den = t.num * t.num * similarity.den
          /\ similarity.off >= 0

RECURSIVE SumTo(_, _, _)
\* the accumulating for loop of cosineSimilarity: sum of vecA[i] * vecB[i]
SumTo(vecA, vecB, n) ==
    IF n = 0 THEN 0 ELSE SumTo(vecA, vecB, n - 1) + vecA[n] * vecB[n]

\* the guard of cosineSimilarity: throw new Error('Vectors must have the same length')
Throws(vecA, vecB) == Len(vecA) # Len(vecB)

\* variant: a zero norm is answered with 1
cosineSimilarityZeroIsOne(vecA, vecB) ==
    LET dotProduct == SumTo(vecA, vecB, Len(vecA))
        normA == SumTo(vecA, vecA, Len(vecA))
        normB == SumTo(vecB, vecB, Len(vecA))
    IN  IF normA = 0 \/ normB = 0 THEN One
        ELSE Quotient(dotProduct, normA, normB)

\* cosineSimilarity for vectors of equal length
cosineSimilarity(vecA, vecB) ==
    LET dotProduct == SumTo(vecA, vecB, Len(vecA))
        normA == SumTo(vecA, vecA, Len(vecA))
        normB == SumTo(vecB, vecB, Len(vecA))
    IN  IF normA = 0 \/ normB = 0 THEN Zero
        ELSE Quotient(dotProduct, normA, normB)

(***************************************************************************)
(* performClustering                                                        *)
(***************************************************************************)
\* commentsWithEmbeddings.filter(comment => comment.embedding)
validComments == SelectSeq(commentsWithEmbeddings, LAMBDA c : c.embedding.defined)

\* variant: the comments without embedding are filtered out for good
commentsWithoutEmbeddingsDropped == <<>>

\* commentsWithEmbeddings.filter(comment => !comment.embedding)
commentsWithoutEmbeddings == SelectSeq(commentsWithEmbeddings, LAMBDA c : ~c.embedding.defined)

\* clusteredComments.filter(c => c.clusterId === clusterId)
clusterComments(clusterId) == SelectSeq(clusteredComments, LAMBDA c : c.clusterId = clusterId)

NoMatch == [kind |-> "none"]
Thrown  == [kind |-> "throw"]
Match(clusterId, similarity) == [kind |-> "match", clusterId |-> clusterId, similarity |-> similarity]

\* variant: a candidate is compared with the founder of the cluster only
ScanMembersFounderOnly(comment, clusterId, members, j) ==
    IF j > Len(members) \/ j > 1 THEN NoMatch
    ELSE IF Throws(comment.embedding.val, members[j].embedding.val) THEN Thrown
    ELSE LET similarity == cosineSimilarity(comment.embedding.val, members[j].embedding.val)
         IN  IF AtLeast(similarity, similarityThreshold)
             THEN Match(clusterId, similarity)
             ELSE NoMatch

RECURSIVE ScanMembersSwallow(_, _, _, _)
\* variant: a comparison that throws is caught and counts as no match
ScanMembersSwallow(comment, clusterId, members, j) ==
    IF j > Len(members) THEN NoMatch
    ELSE IF Throws(comment.embedding.val, members[j].embedding.val)
         THEN ScanMembersSwallow(comment, clusterId, members, j + 1)
    ELSE LET similarity == cosineSimilarity(comment.embedding.val, members[j].embedding.val)
         IN  IF AtLeast(similarity, similarityThreshold)
             THEN Match(clusterId, similarity)
             ELSE ScanMembersSwallow(comment, clusterId, members, j + 1)

RECURSIVE ScanMembers(_, _, _, _)
\* for (const clusterComment of clusterComments): first member at or above
\* the threshold, or the exception of the first comparison that throws
ScanMembers(comment, clusterId, members, j) ==
    IF j > Len(members) THEN NoMatch
    ELSE IF Throws(comment.embedding.val, members[j].embedding.val) THEN Thrown
    ELSE LET similarity == cosineSimilarity(comment.embedding.val, members[j].embedding.val)
         IN  IF AtLeast(similarity, similarityThreshold)
             THEN Match(clusterId, similarity)
             ELSE ScanMembers(comment, clusterId, members, j + 1)

RECURSIVE ScanMembersPlain(_, _, _, _)
ScanMembersPlain(comment, clusterId, members, j) ==
    IF j > Len(members) THEN NoMatch
    ELSE IF Throws(comment.embedding.val, members[j].embedding.val) THEN Thrown
    ELSE LET similarity == cosineSimilarity(comment.embedding.val, members[j].embedding.val)
         IN  IF AtLeast(similarity, similarityThreshold)
             THEN Match(clusterId, similarity)
             ELSE ScanMembersPlain(comment, clusterId, members, j + 1)

RECURSIVE ScanClustersDown(_, _)
ScanClustersDown(comment, clusterId) ==
    IF clusterId < 1 THEN NoMatch
    ELSE LET r == ScanMembersPlain(comment, clusterId, clusterComments(clusterId), 1)
         IN  IF r.kind = "none" THEN ScanClustersDown(comment, clusterId - 1) ELSE r

\* variant: the clusters are scanned from the newest to the oldest
ScanClustersLastFit(comment, clusterId) == ScanClustersDown(comment, Len(clusters))

RECURSIVE ScanClusters(_, _)
\* for (let i = 0; i < clusters.length; i++), clusterId = i + 1
ScanClusters(comment, clusterId) ==
    IF clusterId > Len(clusters) THEN NoMatch
    ELSE LET r == ScanMembers(comment, clusterId, clusterComments(clusterId), 1)
         IN  IF r.kind = "none" THEN ScanClusters(comment, clusterId + 1) ELSE r

\* variant: the new entry is put in front
Unshift(array, item) == <<item>> \o array

\* variant: the score of the new entry is written onto the entries of its cluster
PushAndRescore(array, item) ==
    Append([j \in DOMAIN array |->
               IF array[j].clusterId = item.clusterId
               THEN [array[j] EXCEPT !.similarityScore = item.similarityScore]
               ELSE array[j]], item)

\* clusteredComments.push(item)
Push(array, item) == Append(array, item)

\* variant: the number of clustered comments is taken for the number of clusters
newClusterIdByComments == Len(clusteredComments) + 1

\* line 158: const newClusterId = clusters.length + 1
newClusterId == Len(clusters) + 1

\* variant: the + 1 is forgotten
newClusterIdWithoutOffByOne == Len(clusters)

\* line 171: const newClusterId = clusters.length + 1
newClusterIdWithout == Len(clusters) + 1

\* variant: the founder's score is computed like any other
FounderScoreComputed(comment) == cosineSimilarity(comment.embedding.val, comment.embedding.val)

\* line 163: similarityScore: 1.0, a literal, whatever the vector is
FounderScore(comment) == One

\* variant: the error marker is left out
ClusteredNoMarker(comment, clusterId, similarityScore, clusteringError) ==
    [id |-> comment.id, embedding |-> comment.embedding, clusterId |-> clusterId,
     similarityScore |-> similarityScore, clusteringError |-> Undefined]

\* { ...comment, clusterId, similarityScore, clusteringError }
Clustered(comment, clusterId, similarityScore, clusteringError) ==
    [id |-> comment.id, embedding |-> comment.embedding, clusterId |-> clusterId,
     similarityScore |-> similarityScore, clusteringError |-> clusteringError]

\* processComments and main have not run
NotStarted ==
    /\ categorizedComments = <<>>
    /\ featureIndex = 0
    /\ clusterFeatures = <<>>
    /\ allFeatures = <<>>
    /\ commentsWithResponses = <<>>
    /\ resultsFile = Undefined
    /\ saves = 0
    /\ commentsFile = Undefined
    /\ allowRegenerateComments = TRUE
    /\ answer = Undefined
    /\ loaded = Undefined
    /\ generateCalls = 0
    /\ fallback = FALSE
    /\ exitCode = Undefined

InputItems(n) ==
    {s \in [1..n -> [id : 1..n, embedding : Embeddings]] : \A i \in 1..n : s[i].id = i}

Init ==
    /\ \E n \in 0..MaxLen : commentsWithEmbeddings \in InputItems(n)
    /\ clusters = <<>>
    /\ clusteredComments = <<>>
    /\ pc = "valid"
    /\ vi = 1
    /\ wi = 1
    /\ result = Undefined
    /\ previous = Undefined
    /\ stage = "performClustering"
    /\ comments = <<>>
    /\ clusterNames = <<>>
    /\ failed = {}
    /\ NotStarted

\* lines 136-148: the comment matches a member of an existing cluster
AssignToExisting ==
    /\ pc = "valid"
    /\ vi <= Len(validComments)
    /\ LET comment == validComments[vi]
           r == ScanClusters(comment, 1)
       IN  /\ r.kind = "match"
           /\ clusteredComments' = Push(clusteredComments,
                  Clustered(comment, r.clusterId, Some(r.similarity), Undefined))
    /\ vi' = vi + 1
    /\ UNCHANGED <<commentsWithEmbeddings, clusters, pc, wi, result, outer>>

\* lines 156-165: no cluster matched
CreateCluster ==
    /\ pc = "valid"
    /\ vi <= Len(validComments)
    /\ LET comment == validComments[vi]
           r == ScanClusters(comment, 1)
       IN  /\ r.kind = "none"
           /\ clusters' = Append(clusters, newClusterId)
           /\ clusteredComments' = Push(clusteredComments,
                  Clustered(comment, newClusterId, Some(FounderScore(comment)), Undefined))
    /\ vi' = vi + 1
    /\ UNCHANGED <<commentsWithEmbeddings, pc, wi, result, outer>>

\* line 137 throws: the exception leaves performClustering
DimensionMismatch ==
    /\ pc = "valid"
    /\ vi <= Len(validComments)
    /\ ScanClusters(validComments[vi], 1).kind = "throw"
    /\ pc' = "error"
    /\ UNCHANGED <<commentsWithEmbeddings, clusters, clusteredComments, vi, wi, result, outer>>

\* line 169: the first loop is over
FilterWithoutEmbeddings ==
    /\ pc = "valid"
    /\ vi > Len(validComments)
    /\ pc' = "without"
    /\ UNCHANGED <<commentsWithEmbeddings, clusters, clusteredComments, vi, wi, result, outer>>

\* lines 170-178
AddWithoutEmbedding ==
    /\ pc = "without"
    /\ wi <= Len(commentsWithoutEmbeddings)
    /\ LET comment == commentsWithoutEmbeddings[wi]
       IN  /\ clusters' = Append(clusters, newClusterIdWithout)
           /\ clusteredComments' = Push(clusteredComments,
                  Clustered(comment, newClusterIdWithout, Undefined, Some("No embedding available")))
    /\ wi' = wi + 1
    /\ UNCHANGED <<commentsWithEmbeddings, pc, vi, result, outer>>

\* line 180
Return ==
    /\ pc = "without"
    /\ wi > Len(commentsWithoutEmbeddings)
    /\ pc' = "done"
    /\ result' = Some(clusteredComments)
    /\ UNCHANGED <<commentsWithEmbeddings, clusters, clusteredComments, vi, wi, outer>>

Next ==
    \/ AssignToExisting
    \/ CreateCluster
    \/ DimensionMismatch
    \/ FilterWithoutEmbeddings
    \/ AddWithoutEmbedding
    \/ Return

Spec == Init /\ [][Next]_vars

(***************************************************************************)
(* Clustering the output of a call again: the returned items, with their    *)
(* embeddings, are the argument of a second call.  Every property the       *)
(* spread ...comment would carry over from the first call (clusterId,       *)
(* similarityScore for an embedded item, clusterId and clusteringError      *)
(* for the others) is overwritten by the second call, so the items are      *)
(* passed as id and embedding.                                              *)
(***************************************************************************)
Rerun ==
    /\ pc = "done"
    /\ ~previous.defined
    /\ previous' = result
    /\ commentsWithEmbeddings' =
           [j \in 1..Len(result.val) |->
               [id |-> result.val[j].id, embedding |-> result.val[j].embedding]]
    /\ clusters' = <<>>
    /\ clusteredComments' = <<>>
    /\ pc' = "valid"
    /\ vi' = 1
    /\ wi' = 1
    /\ result' = Undefined
    /\ UNCHANGED caller

NextRerun ==
    \/ Next
    \/ Rerun

SpecRerun == Init /\ [][NextRerun]_vars

(***************************************************************************)
(* clusterComments: generateEmbeddings, performClustering, grouping by      *)
(* cluster, generateClusterNames.  The embedding model and the labeler are  *)
(* remote calls: each call succeeds or throws.                              *)
(***************************************************************************)
\* the vectors getEmbedding returns in the runs of the callers
PipelineVectors == {VecP, VecS, VecM}

Comments(n) == [i \in 1..n |-> [id |-> i]]

\* Math.min(5, comments.length)
sampleSize(members) == IF Len(members) < 5 THEN Len(members) ELSE 5

\* commentsByCluster[clusterId], filled by the forEach of lines 34-44
commentsByCluster(clusterId) == SelectSeq(result.val, LAMBDA c : c.clusterId = clusterId)

\* Object.keys(commentsByCluster): the integer-like keys, which Object.entries
\* lists in ascending order
clusterKeys == {result.val[j].clusterId : j \in 1..Len(result.val)}

\* variant: the whole cluster is sent to the labeler
sampleCommentsAll(clusterId) ==
    [j \in 1..Len(commentsByCluster(clusterId)) |-> commentsByCluster(clusterId)[j].id]

\* comments.slice(0, sampleSize).map(comment => comment.text): the sample,
\* as the ids of the comments whose texts are joined
sampleComments(clusterId) ==
    [j \in 1..sampleSize(commentsByCluster(clusterId)) |-> commentsByCluster(clusterId)[j].id]

\* the name the labeler returns for a sample
GeneratedName(sample) == [kind |-> "generated", sample |-> sample]

\* `Cluster ${clusterId}`
DefaultName(clusterId) == [kind |-> "default", clusterId |-> clusterId]

InitNames ==
    /\ \E n \in 0..MaxNamed : comments = Comments(n)
    /\ stage = "embed"
    /\ commentsWithEmbeddings = <<>>
    /\ clusters = <<>>
    /\ clusteredComments = <<>>
    /\ pc = "idle"
    /\ vi = 1
    /\ wi = 1
    /\ result = Undefined
    /\ previous = Undefined
    /\ clusterNames = <<>>
    /\ failed = {}
    /\ NotStarted

\* generateEmbeddings, lines 77-93: one comment
GenerateEmbedding ==
    /\ stage = "embed"
    /\ Len(commentsWithEmbeddings) < Len(comments)
    /\ LET comment == comments[Len(commentsWithEmbeddings) + 1]
       IN  \/ /\ \E embedding \in PipelineVectors :
                    commentsWithEmbeddings' = Append(commentsWithEmbeddings,
                        [id |-> comment.id, embedding |-> Some(embedding)])
              /\ UNCHANGED failed
           \/ /\ commentsWithEmbeddings' = Append(commentsWithEmbeddings,
                        [id |-> comment.id, embedding |-> Undefined])
              /\ failed' = failed \cup {<<"getEmbedding", comment.id>>}
    /\ UNCHANGED <<clusters, clusteredComments, pc, vi, wi, result, previous,
                   stage, comments, clusterNames,
                   pipeline, entry>>

\* lines 95 and 28: generateEmbeddings returns, performClustering is called
StartClustering ==
    /\ stage = "embed"
    /\ Len(commentsWithEmbeddings) = Len(comments)
    /\ stage' = "cluster"
    /\ pc' = "valid"
    /\ UNCHANGED <<commentsWithEmbeddings, clusters, clusteredComments, vi, wi, result,
                   previous, comments, clusterNames, failed,
                   pipeline, entry>>

\* the exception of performClustering leaves clusterComments, which has no
\* try around line 28
ClusteringThrows ==
    /\ stage = "cluster"
    /\ pc = "error"
    /\ stage' = "thrown"
    /\ UNCHANGED <<commentsWithEmbeddings, clusters, clusteredComments, pc, vi, wi, result,
                   previous, comments, clusterNames, failed,
                   pipeline, entry>>

\* lines 31-53: counting and grouping, generateClusterNames is called
GroupByCluster ==
    /\ stage = "cluster"
    /\ pc = "done"
    /\ stage' = "names"
    /\ UNCHANGED <<commentsWithEmbeddings, clusters, clusteredComments, pc, vi, wi, result,
                   previous, comments, clusterNames, failed,
                   pipeline, entry>>

\* generateClusterNames, lines 193-211: one cluster
GenerateClusterName ==
    /\ stage = "names"
    /\ clusterKeys \ DOMAIN clusterNames # {}
    /\ LET clusterId == CHOOSE k \in clusterKeys \ DOMAIN clusterNames :
                            \A l \in clusterKeys \ DOMAIN clusterNames : k <= l
       IN  \/ /\ clusterNames' = clusterNames @@ (clusterId :> GeneratedName(sampleComments(clusterId)))
              /\ UNCHANGED failed
           \/ /\ clusterNames' = clusterNames @@ (clusterId :> DefaultName(clusterId))
              /\ failed' = failed \cup {<<"generateNameForCluster", clusterId>>}
    /\ UNCHANGED <<commentsWithEmbeddings, clusters, clusteredComments, pc, vi, wi, result,
                   previous, stage, comments,
                   pipeline, entry>>

\* lines 213 and 61-64: clusterComments returns { comments, clusterNames }
ReturnClusterComments ==
    /\ stage = "names"
    /\ clusterKeys \ DOMAIN clusterNames = {}
    /\ stage' = "clustered"
    /\ UNCHANGED <<commentsWithEmbeddings, clusters, clusteredComments, pc, vi, wi, result,
                   previous, comments, clusterNames, failed,
                   pipeline, entry>>

NextNames ==
    \/ GenerateEmbedding
    \/ StartClustering
    \/ AssignToExisting
    \/ CreateCluster
    \/ DimensionMismatch
    \/ FilterWithoutEmbeddings
    \/ AddWithoutEmbedding
    \/ Return
    \/ ClusteringThrows
    \/ GroupByCluster
    \/ GenerateClusterName
    \/ ReturnClusterComments

SpecNames == InitNames /\ [][NextNames]_vars

(***************************************************************************)
(* processComments, called by main at line 57: categorizeComments,          *)
(* clusterComments, identifyFeatures, generateResponses, removeEmbeddings,  *)
(* saveToJson; and the end of main.                                         *)
(***************************************************************************)
\* what determineSentiment returns in these runs
Sentiments == {"positive", "negative"}

\* what extractFeaturesFromComments returns: the names of the features
FeatureLists == {<<"f">>}

\* every list of comments generateComments can return: those of
\* comment-1 .. comment-n whose remote call did not throw, in order
Generated(n) ==
    {SelectSeq(Comments(n), LAMBDA c : c.id \in kept) : kept \in SUBSET (1..n)}

\* variant: the category of a failed categorization is left out
categorizeCommentCatchUnknown(comment) ==
    [id |-> comment.id, category |-> "unknown", categoryError |-> TRUE]

\* the catch of categorizeComment, lines 155-162
categorizeCommentCatch(comment) ==
    [id |-> comment.id, category |-> "neutral", categoryError |-> TRUE]

\* the categorized comment with this id
categorized(id) ==
    categorizedComments[CHOOSE j \in 1..Len(categorizedComments) : categorizedComments[j].id = id]

\* the entries of Object.entries(commentsByCluster), in order of their keys
clusterKeyAt(i) ==
    CHOOSE k \in clusterKeys : Cardinality({l \in clusterKeys : l < k}) = i - 1

\* the features.forEach of lines 51-64
RECURSIVE addFeatures(_, _, _)
addFeatures(all, features, clusterId) ==
    IF features = <<>> THEN all
    ELSE LET feature == Head(features)
             known == {j \in 1..Len(all) : all[j].name = feature}
             existing == CHOOSE j \in known : \A l \in known : j <= l
             included == \E q \in 1..Len(all[existing].clusters) :
                            all[existing].clusters[q] = clusterId
             added == IF known = {}
                      THEN Append(all, [name |-> feature, clusters |-> <<clusterId>>])
                      ELSE IF included THEN all
                      ELSE [all EXCEPT ![existing].clusters = Append(@, clusterId)]
         IN  addFeatures(added, Tail(features), clusterId)

\* { ...comment, response } and { ...comment, response, responseError }
Responded(comment, response, responseError) ==
    [id |-> comment.id,
     category |-> categorized(comment.id).category,
     categoryError |-> categorized(comment.id).categoryError,
     embedding |-> comment.embedding,
     clusterId |-> comment.clusterId,
     similarityScore |-> comment.similarityScore,
     clusteringError |-> comment.clusteringError,
     response |-> response,
     responseError |-> responseError]

\* the reply of the catch of generateResponses
GenericResponse == "We appreciate your feedback and will take it into consideration."

removeEmbeddings(list) ==
    [j \in 1..Len(list) |->
        [f \in DOMAIN list[j] \ {"embedding"} |-> list[j][f]]]

countByCategory(list) ==
    [c \in {"positive", "negative", "neutral", "unknown"} |->
        Cardinality({j \in 1..Len(list) : list[j].category = c})]

\* a clusterId of 0 is not counted: if (clusterId)
countByClusters(list) ==
    [k \in {list[j].clusterId : j \in 1..Len(list)} \ {0} |->
        Cardinality({j \in 1..Len(list) : list[j].clusterId = k})]

\* lines 43-53 of processComments
Results ==
    [metadata |-> [totalComments |-> Len(comments),
                   categories |-> countByCategory(removeEmbeddings(commentsWithResponses)),
                   clusters |-> countByClusters(removeEmbeddings(commentsWithResponses)),
                   clusterNames |-> clusterNames],
     comments |-> removeEmbeddings(commentsWithResponses),
     features |-> allFeatures]

InitPipeline ==
    /\ comments \in Generated(MaxComments)
    /\ stage = "categorize"
    /\ commentsWithEmbeddings = <<>>
    /\ clusters = <<>>
    /\ clusteredComments = <<>>
    /\ pc = "idle"
    /\ vi = 1
    /\ wi = 1
    /\ result = Undefined
    /\ previous = Undefined
    /\ clusterNames = <<>>
    /\ failed = {}
    /\ NotStarted

\* categorizeComments, lines 211-217: one comment
CategorizeComment ==
    /\ stage = "categorize"
    /\ Len(categorizedComments) < Len(comments)
    /\ LET comment == comments[Len(categorizedComments) + 1]
       IN  \/ /\ \E category \in Sentiments :
                    categorizedComments' = Append(categorizedComments,
                        [id |-> comment.id, category |-> category, categoryError |-> FALSE])
              /\ UNCHANGED failed
           \/ /\ categorizedComments' = Append(categorizedComments, categorizeCommentCatch(comment))
              /\ failed' = failed \cup {<<"determineSentiment", comment.id>>}
    /\ UNCHANGED <<commentsWithEmbeddings, clusters, clusteredComments, pc, vi, wi, result,
                   previous, stage, comments, clusterNames, featureIndex, clusterFeatures,
                   allFeatures, commentsWithResponses, resultsFile, saves, entry>>

\* categorizeComments returns; processComments line 28 calls clusterComments
\* with the categorized comments, which keep the ids of comments
StartEmbedding ==
    /\ stage = "categorize"
    /\ Len(categorizedComments) = Len(comments)
    /\ stage' = "embed"
    /\ UNCHANGED <<commentsWithEmbeddings, clusters, clusteredComments, pc, vi, wi, result,
                   previous, comments, clusterNames, failed, pipeline, entry>>

\* variant: identifyFeatures does not wait for the cluster names
StartFeaturesEarly ==
    /\ stage = "names"
    /\ stage' = "features"
    /\ UNCHANGED <<commentsWithEmbeddings, clusters, clusteredComments, pc, vi, wi, result,
                   previous, comments, clusterNames, failed, pipeline, entry>>

\* processComments lines 29-33, identifyFeatures lines 20-35
StartFeatures ==
    /\ stage = "clustered"
    /\ stage' = "features"
    /\ UNCHANGED <<commentsWithEmbeddings, clusters, clusteredComments, pc, vi, wi, result,
                   previous, comments, clusterNames, failed, pipeline, entry>>

\* identifyFeatures, lines 37-70: one cluster
IdentifyClusterFeatures ==
    /\ stage = "features"
    /\ featureIndex < Cardinality(clusterKeys)
    /\ LET clusterId == clusterKeyAt(featureIndex + 1)
       IN  \/ /\ \E features \in FeatureLists :
                    /\ clusterFeatures' = clusterFeatures @@ (clusterId :> features)
                    /\ allFeatures' = addFeatures(allFeatures, features, clusterId)
              /\ UNCHANGED failed
           \/ /\ failed' = failed \cup {<<"extractFeaturesFromComments", clusterId>>}
              /\ UNCHANGED <<clusterFeatures, allFeatures>>
    /\ featureIndex' = featureIndex + 1
    /\ UNCHANGED <<commentsWithEmbeddings, clusters, clusteredComments, pc, vi, wi, result,
                   previous, stage, comments, clusterNames, categorizedComments,
                   commentsWithResponses, resultsFile, saves, entry>>

\* identifyFeatures returns; processComments line 37 calls generateResponses
StartResponses ==
    /\ stage = "features"
    /\ featureIndex = Cardinality(clusterKeys)
    /\ stage' = "responses"
    /\ UNCHANGED <<commentsWithEmbeddings, clusters, clusteredComments, pc, vi, wi, result,
                   previous, comments, clusterNames, failed, pipeline, entry>>

\* generateResponses, lines 26-50: one comment
GenerateResponse ==
    /\ stage = "responses"
    /\ Len(commentsWithResponses) < Len(result.val)
    /\ LET comment == result.val[Len(commentsWithResponses) + 1]
       IN  \/ /\ commentsWithResponses' = Append(commentsWithResponses,
                        Responded(comment, "generated", FALSE))
              /\ UNCHANGED failed
           \/ /\ commentsWithResponses' = Append(commentsWithResponses,
                        Responded(comment, GenericResponse, TRUE))
              /\ failed' = failed \cup {<<"generateSingleResponse", comment.id>>}
    /\ UNCHANGED <<commentsWithEmbeddings, clusters, clusteredComments, pc, vi, wi, result,
                   previous, stage, comments, clusterNames, categorizedComments, featureIndex,
                   clusterFeatures, allFeatures, resultsFile, saves, entry>>

\* processComments lines 40-59: the results are built and saved, or
\* saveToJson throws
SaveResults ==
    /\ stage = "responses"
    /\ Len(commentsWithResponses) = Len(result.val)
    /\ \/ /\ resultsFile' = Some(Results)
          /\ saves' = saves + 1
          /\ stage' = "saved"
          /\ UNCHANGED failed
       \/ /\ stage' = "thrown"
          /\ failed' = failed \cup {<<"saveToJson", 0>>}
          /\ UNCHANGED <<resultsFile, saves>>
    /\ UNCHANGED <<commentsWithEmbeddings, clusters, clusteredComments, pc, vi, wi, result,
                   previous, comments, clusterNames, categorizedComments, featureIndex,
                   clusterFeatures, allFeatures, commentsWithResponses, entry>>

\* main, lines 65-68
MainCatch ==
    /\ stage = "thrown"
    /\ stage' = "exited"
    /\ exitCode' = Some(1)
    /\ UNCHANGED <<commentsWithEmbeddings, clusters, clusteredComments, pc, vi, wi, result,
                   previous, comments, clusterNames, failed, pipeline, commentsFile,
                   allowRegenerateComments, answer, loaded, generateCalls, fallback>>

\* main, lines 59-63
MainReturn ==
    /\ stage = "saved"
    /\ stage' = "completed"
    /\ UNCHANGED <<commentsWithEmbeddings, clusters, clusteredComments, pc, vi, wi, result,
                   previous, comments, clusterNames, failed, pipeline, entry>>

NextPipeline ==
    \/ CategorizeComment
    \/ StartEmbedding
    \/ GenerateEmbedding
    \/ StartClustering
    \/ AssignToExisting
    \/ CreateCluster
    \/ DimensionMismatch
    \/ FilterWithoutEmbeddings
    \/ AddWithoutEmbedding
    \/ Return
    \/ ClusteringThrows
    \/ GroupByCluster
    \/ GenerateClusterName
    \/ ReturnClusterComments
    \/ StartFeatures
    \/ IdentifyClusterFeatures
    \/ StartResponses
    \/ GenerateResponse
    \/ SaveResults
    \/ MainCatch
    \/ MainReturn

SpecPipeline == InitPipeline /\ [][NextPipeline]_vars

(***************************************************************************)
(* main, lines 16-57: where the comments come from.  The call of            *)
(* processComments at line 57 is the start of InitPipeline.                 *)
(***************************************************************************)
\* what the file at config.paths.commentsFile can hold: nothing (no file),
\* something loadFromJson or line 31 throws on, or a list of comments
NoFile == [defined |-> FALSE]
InvalidFile == [defined |-> TRUE, valid |-> FALSE]
ValidFile(list) == [defined |-> TRUE, valid |-> TRUE, val |-> list]

\* what the user can type
Answers == {"y", "Y", "n", ""}

\* answer.toLowerCase()
toLowerCase(a) == IF a = "Y" THEN "y" ELSE a

InitMain ==
    /\ stage = "main"
    /\ commentsFile \in {NoFile, InvalidFile} \cup
            {ValidFile(Comments(n)) : n \in 0..MaxComments}
    /\ allowRegenerateComments \in BOOLEAN
    /\ comments = <<>>
    /\ commentsWithEmbeddings = <<>>
    /\ clusters = <<>>
    /\ clusteredComments = <<>>
    /\ pc = "idle"
    /\ vi = 1
    /\ wi = 1
    /\ result = Undefined
    /\ previous = Undefined
    /\ clusterNames = <<>>
    /\ failed = {}
    /\ categorizedComments = <<>>
    /\ featureIndex = 0
    /\ clusterFeatures = <<>>
    /\ allFeatures = <<>>
    /\ commentsWithResponses = <<>>
    /\ resultsFile = Undefined
    /\ saves = 0
    /\ answer = Undefined
    /\ loaded = Undefined
    /\ generateCalls = 0
    /\ fallback = FALSE
    /\ exitCode = Undefined

\* lines 21-23: fs.mkdir succeeds or throws
CreateDataDir ==
    /\ stage = "main"
    /\ \/ stage' = "load" /\ UNCHANGED failed
       \/ stage' = "thrown" /\ failed' = failed \cup {<<"mkdir", 0>>}
    /\ UNCHANGED <<commentsWithEmbeddings, clusters, clusteredComments, pc, vi, wi, result,
                   previous, comments, clusterNames, pipeline, entry>>

\* lines 27-34: loadFromJson returns the comments or throws
LoadComments ==
    /\ stage = "load"
    /\ IF commentsFile.defined /\ commentsFile.valid
       THEN /\ loaded' = Some(commentsFile.val)
            /\ comments' = commentsFile.val
            /\ stage' = IF allowRegenerateComments THEN "prompt" ELSE "categorize"
            /\ UNCHANGED failed
       ELSE /\ stage' = "catch"
            /\ failed' = failed \cup {<<"loadFromJson", 0>>}
            /\ UNCHANGED <<loaded, comments>>
    /\ UNCHANGED <<commentsWithEmbeddings, clusters, clusteredComments, pc, vi, wi, result,
                   previous, clusterNames, pipeline, commentsFile, allowRegenerateComments,
                   answer, generateCalls, fallback, exitCode>>

\* lines 35-46: the question and its answer
AskRegenerate ==
    /\ stage = "prompt"
    /\ \E a \in Answers :
            /\ answer' = Some(a)
            /\ stage' = IF toLowerCase(a) = "y" THEN "regenerate" ELSE "categorize"
    /\ UNCHANGED <<commentsWithEmbeddings, clusters, clusteredComments, pc, vi, wi, result,
                   previous, comments, clusterNames, failed, pipeline, commentsFile,
                   allowRegenerateComments, loaded, generateCalls, fallback, exitCode>>

\* line 47: generateComments returns its comments, having saved them, or
\* its saveToJson throws, inside the try of lines 27-49
RegenerateComments ==
    /\ stage = "regenerate"
    /\ generateCalls' = generateCalls + 1
    /\ \/ \E list \in Generated(MaxComments) :
            /\ comments' = list
            /\ commentsFile' = ValidFile(list)
            /\ stage' = "categorize"
            /\ UNCHANGED failed
       \/ /\ stage' = "catch"
          /\ failed' = failed \cup {<<"saveToJson", 1>>}
          /\ UNCHANGED <<comments, commentsFile>>
    /\ UNCHANGED <<commentsWithEmbeddings, clusters, clusteredComments, pc, vi, wi, result,
                   previous, clusterNames, pipeline, allowRegenerateComments, answer, loaded,
                   fallback, exitCode>>

\* lines 50-54: the catch calls generateComments, whose exception leaves
\* for the catch of lines 65-68
GenerateInCatch ==
    /\ stage = "catch"
    /\ fallback' = TRUE
    /\ generateCalls' = generateCalls + 1
    /\ \/ \E list \in Generated(MaxComments) :
            /\ comments' = list
            /\ commentsFile' = ValidFile(list)
            /\ stage' = "categorize"
            /\ UNCHANGED failed
       \/ /\ stage' = "thrown"
          /\ failed' = failed \cup {<<"saveToJson", 2>>}
          /\ UNCHANGED <<comments, commentsFile>>
    /\ UNCHANGED <<commentsWithEmbeddings, clusters, clusteredComments, pc, vi, wi, result,
                   previous, clusterNames, pipeline, allowRegenerateComments, answer, loaded,
                   exitCode>>

NextMain ==
    \/ CreateDataDir
    \/ LoadComments
    \/ AskRegenerate
    \/ RegenerateComments
    \/ GenerateInCatch
    \/ MainCatch

SpecMain == InitMain /\ [][NextMain]_vars

(***************************************************************************)
(* Vocabulary of the properties.  The similarity of the properties is the   *)
(* mathematical one, dot product over the product of the norms, compared    *)
(* with the threshold by cross-multiplication; it shares nothing with the   *)
(* operators that model the code.                                           *)
(***************************************************************************)
Dot(a, b) ==
    LET f[i \in 0..Len(a)] == IF i = 0 THEN 0 ELSE f[i - 1] + a[i] * b[i]
    IN  f[Len(a)]

Comparable(a, b) == Len(a) = Len(b)

\* sim(a, b) >= t
Meets(a, b) ==
    /\ Comparable(a, b)
    /\ Dot(a, b) > 0
    /\ similarityThreshold.den * similarityThreshold.den * Dot(a, b) * Dot(a, b)
         >= similarityThreshold.num * similarityThreshold.num * Dot(a, a) * Dot(b, b)

\* sim(a, b) = t
Exactly(a, b) ==
    /\ Comparable(a, b)
    /\ Dot(a, b) > 0
    /\ similarityThreshold.den * similarityThreshold.den * Dot(a, b) * Dot(a, b)
         = similarityThreshold.num * similarityThreshold.num * Dot(a, a) * Dot(b, b)

\* sim(a, b) < sim(c, d), the latter being positive
SimLess(a, b, c, d) ==
    /\ Comparable(a, b) /\ Comparable(c, d)
    /\ Dot(c, d) > 0
    /\ \/ Dot(a, b) <= 0
       \/ Dot(a, b) * Dot(a, b) * Dot(c, c) * Dot(d, d)
            < Dot(c, d) * Dot(c, d) * Dot(a, a) * Dot(b, b)

Embedded(c) == c.embedding.defined
Vec(c) == c.embedding.val
Min(S) == CHOOSE x \in S : \A y \in S : x <= y
Last(s) == s[Len(s)]

Assigned == 1..Len(clusteredComments)
MembersOf(k) == {j \in Assigned : clusteredComments[j].clusterId = k}

\* the embedded item the first loop is about to take
Candidate == validComments[vi]
TakesCandidate == pc = "valid" /\ vi <= Len(validComments)

\* the clusters created so far that hold a member similar enough to c
QualifyingClusters(c) ==
    {k \in 1..Len(clusters) :
        \E j \in MembersOf(k) : /\ Embedded(clusteredComments[j])
                                /\ Meets(Vec(c), Vec(clusteredComments[j]))}

\* no comparison of c with a member of the clusters 1..k can throw
ComparableUpTo(c, k) ==
    \A j \in Assigned :
        clusteredComments[j].clusterId <= k => Comparable(Vec(c), Vec(clusteredComments[j]))

\* the step appends an entry for c, in cluster k
AppendsIn(c, k) ==
    /\ Len(clusteredComments') = Len(clusteredComments) + 1
    /\ Last(clusteredComments').id = c.id
    /\ Last(clusteredComments').clusterId = k

(***************************************************************************)
(* C1 - first fit: whenever an embedded item is assigned while some         *)
(* cluster created so far holds a member whose similarity to the item is    *)
(* at least the threshold, the item goes to the lowest-numbered such        *)
(* cluster, whatever the similarities in the higher-numbered ones.          *)
(***************************************************************************)
C1_FirstFit ==
    [][(/\ TakesCandidate
        /\ Len(clusteredComments') = Len(clusteredComments) + 1
        /\ QualifyingClusters(Candidate) # {})
       => AppendsIn(Candidate, Min(QualifyingClusters(Candidate)))]_vars

\* an item sits in a cluster although a higher-numbered cluster held, when it
\* was assigned, a member strictly more similar than every member of its own
C1_Witness ==
    \E j \in Assigned, i \in Assigned :
        /\ i < j
        /\ Embedded(clusteredComments[j]) /\ Embedded(clusteredComments[i])
        /\ clusteredComments[i].clusterId > clusteredComments[j].clusterId
        /\ Meets(Vec(clusteredComments[j]), Vec(clusteredComments[i]))
        /\ \A m \in MembersOf(clusteredComments[j].clusterId) :
              m < j => SimLess(Vec(clusteredComments[j]), Vec(clusteredComments[m]),
                               Vec(clusteredComments[j]), Vec(clusteredComments[i]))

(***************************************************************************)
(* C2 - single-link chaining: when the embedded items of the input are      *)
(* A, B, C in this order with sim(A,B) >= t, sim(B,C) >= t, sim(A,C) < t,   *)
(* the call returns and all three carry the same cluster identifier.        *)
(***************************************************************************)
ResultOf(id) ==
    LET j == CHOOSE j \in 1..Len(result.val) : result.val[j].id = id
    IN  result.val[j]

ChainInput ==
    /\ Len(validComments) = 3
    /\ Meets(Vec(validComments[1]), Vec(validComments[2]))
    /\ Meets(Vec(validComments[2]), Vec(validComments[3]))
    /\ Comparable(Vec(validComments[1]), Vec(validComments[3]))
    /\ ~Meets(Vec(validComments[1]), Vec(validComments[3]))

C2_Chaining ==
    ChainInput =>
        /\ pc # "error"
        /\ result.defined =>
              /\ ResultOf(validComments[1].id).clusterId = ResultOf(validComments[2].id).clusterId
              /\ ResultOf(validComments[2].id).clusterId = ResultOf(validComments[3].id).clusterId

C2_Witness == ChainInput /\ result.defined

(***************************************************************************)
(* C3 - threshold boundary: a candidate whose similarity to a member of     *)
(* cluster k is exactly the threshold, no lower-numbered cluster            *)
(* qualifying, joins cluster k; a candidate whose similarities to all       *)
(* members of all clusters are strictly below the threshold joins none of   *)
(* the existing clusters.                                                   *)
(***************************************************************************)
C3_ThresholdBoundary ==
    [][TakesCandidate =>
        /\ \A k \in 1..Len(clusters) :
              (/\ ComparableUpTo(Candidate, k)
               /\ \E j \in MembersOf(k) :
                     Exactly(Vec(Candidate), Vec(clusteredComments[j]))
               /\ \A q \in 1..(k - 1) : q \notin QualifyingClusters(Candidate))
              => AppendsIn(Candidate, k)
        /\ (/\ ComparableUpTo(Candidate, Len(clusters))
            /\ QualifyingClusters(Candidate) = {})
           => /\ Len(clusteredComments') = Len(clusteredComments) + 1
              /\ Last(clusteredComments').id = Candidate.id
              /\ Last(clusteredComments').clusterId \notin 1..Len(clusters)]_vars

\* an item is in a cluster on the strength of similarities equal to the
\* threshold only
C3_Witness ==
    \E j \in Assigned, m \in Assigned :
        /\ m < j
        /\ Embedded(clusteredComments[j]) /\ Embedded(clusteredComments[m])
        /\ clusteredComments[m].clusterId = clusteredComments[j].clusterId
        /\ Exactly(Vec(clusteredComments[j]), Vec(clusteredComments[m]))
        /\ \A i \in Assigned :
              (i < j /\ clusteredComments[i].clusterId <= clusteredComments[j].clusterId)
              => /\ Embedded(clusteredComments[i])
                 /\ Comparable(Vec(clusteredComments[j]), Vec(clusteredComments[i]))
                 /\ Meets(Vec(clusteredComments[j]), Vec(clusteredComments[i]))
                      => Exactly(Vec(clusteredComments[j]), Vec(clusteredComments[i]))

(***************************************************************************)
(* C4 - every item of the returned sequence carries a cluster identifier    *)
(* that is a positive integer, with or without an embedding.                *)
(***************************************************************************)
C4_EveryItemHasClusterId ==
    result.defined =>
        \A j \in 1..Len(result.val) : result.val[j].clusterId \in Nat \ {0}

C4_Witness ==
    /\ result.defined
    /\ \E j \in 1..Len(result.val) : Embedded(result.val[j])
    /\ \E j \in 1..Len(result.val) : ~Embedded(result.val[j])

(***************************************************************************)
(* C5 - identifiers follow first appearance.                                *)
(***************************************************************************)
\* entry j is the first member of its cluster
IsFounder(j) ==
    \A i \in Assigned : clusteredComments[i].clusterId = clusteredComments[j].clusterId => j <= i

\* x is taken before y: the embedded items in input order, then the others
\* in input order (the id of an item is its position in the input)
ProcessedBefore(x, y) ==
    \/ Embedded(x) /\ ~Embedded(y)
    \/ (Embedded(x) <=> Embedded(y)) /\ x.id < y.id

\* C5 as stated: of two first members of clusters, the one earlier in the
\* INPUT has the smaller identifier, also when the input mixes items with
\* and without embedding.
C5_InputOrder ==
    \A a \in Assigned, b \in Assigned :
        (/\ IsFounder(a) /\ IsFounder(b)
         /\ clusteredComments[a].id < clusteredComments[b].id)
        => clusteredComments[a].clusterId < clusteredComments[b].clusterId

\* C5 amended: the identifiers created so far are 1, 2, ..., in this order,
\* and of two first members of clusters, the one PROCESSED earlier (embedded
\* items in input order first, embedding-less items in input order after
\* them) has the smaller identifier.
C5_ProcessingOrder ==
    /\ \A k \in 1..Len(clusters) : clusters[k] = k
    /\ \A a \in Assigned, b \in Assigned :
          (/\ IsFounder(a) /\ IsFounder(b)
           /\ ProcessedBefore(clusteredComments[a], clusteredComments[b]))
          => clusteredComments[a].clusterId < clusteredComments[b].clusterId

\* an embedding-less item that precedes an embedded cluster founder in the
\* input has founded its own cluster after it
C5_Witness ==
    \E a \in Assigned, b \in Assigned :
        /\ IsFounder(a) /\ IsFounder(b)
        /\ Embedded(clusteredComments[a]) /\ ~Embedded(clusteredComments[b])
        /\ clusteredComments[b].id < clusteredComments[a].id

(***************************************************************************)
(* C6 - an assignment is final: no step changes the cluster identifier or   *)
(* the similarity score of an item assigned before it.                      *)
(***************************************************************************)
C6_AssignmentsFrozen ==
    [][\A j \in Assigned :
          /\ j <= Len(clusteredComments')
          /\ clusteredComments'[j].id = clusteredComments[j].id
          /\ clusteredComments'[j].clusterId = clusteredComments[j].clusterId
          /\ clusteredComments'[j].similarityScore = clusteredComments[j].similarityScore]_vars

\* a founder, then an item that joined it with a lower score, then an
\* embedding-less item
C6_Witness ==
    \E j \in Assigned, i \in Assigned, k \in Assigned :
        /\ j < i /\ i < k
        /\ clusteredComments[i].clusterId = clusteredComments[j].clusterId
        /\ clusteredComments[i].similarityScore # clusteredComments[j].similarityScore
        /\ ~Embedded(clusteredComments[k])

(***************************************************************************)
(* C7 - an item without embedding is alone in its cluster, in every state   *)
(* from its assignment on, carries the marker "No embedding available",     *)
(* and every such item of the input is in the result.                       *)
(***************************************************************************)
C7_SingletonWithoutEmbedding ==
    /\ \A j \in Assigned :
          ~Embedded(clusteredComments[j]) =>
              /\ clusteredComments[j].clusteringError = Some("No embedding available")
              /\ MembersOf(clusteredComments[j].clusterId) = {j}
    /\ result.defined =>
          \A i \in 1..Len(commentsWithEmbeddings) :
              ~Embedded(commentsWithEmbeddings[i]) =>
                  \E j \in 1..Len(result.val) :
                      /\ result.val[j].id = commentsWithEmbeddings[i].id
                      /\ ~Embedded(result.val[j])

C7_Witness ==
    /\ result.defined
    /\ Len(clusters) > Len(commentsWithoutEmbeddings)
    /\ Len(commentsWithoutEmbeddings) >= 2

(***************************************************************************)
(* C8 - an input of n items, none with an embedding, returns n entries,     *)
(* the i-th being the i-th input item with identifier i, the marker and no  *)
(* similarity score.                                                        *)
(***************************************************************************)
C8_NoEmbeddingsAtAll ==
    (result.defined /\ \A i \in 1..Len(commentsWithEmbeddings) : ~Embedded(commentsWithEmbeddings[i]))
    => /\ Len(result.val) = Len(commentsWithEmbeddings)
       /\ \A i \in 1..Len(result.val) :
             /\ result.val[i].id = commentsWithEmbeddings[i].id
             /\ result.val[i].clusterId = i
             /\ result.val[i].clusteringError = Some("No embedding available")
             /\ result.val[i].similarityScore = Undefined

C8_Witness ==
    /\ result.defined
    /\ Len(commentsWithEmbeddings) >= 2
    /\ \A i \in 1..Len(commentsWithEmbeddings) : ~Embedded(commentsWithEmbeddings[i])

(***************************************************************************)
(* C9 - when no existing cluster qualifies for an embedded item, the step   *)
(* creates cluster number (clusters so far) + 1, the item is its only       *)
(* member, and its score is the literal 1.0, not a computed similarity.     *)
(***************************************************************************)
C9_NewCluster ==
    [][(/\ TakesCandidate
        /\ ComparableUpTo(Candidate, Len(clusters))
        /\ QualifyingClusters(Candidate) = {})
       => /\ clusters' = Append(clusters, Len(clusters) + 1)
          /\ AppendsIn(Candidate, Len(clusters) + 1)
          /\ \A j \in 1..Len(clusteredComments') :
                clusteredComments'[j].clusterId = Len(clusters) + 1 => j = Len(clusteredComments')
          /\ Last(clusteredComments').similarityScore = Some(One)
          /\ Last(clusteredComments').clusteringError = Undefined]_vars

\* a zero vector, whose computed self-similarity would be 0, has founded a
\* cluster after others and carries the score 1.0
C9_Witness ==
    \E j \in Assigned :
        /\ j > 1
        /\ IsFounder(j)
        /\ Embedded(clusteredComments[j])
        /\ Dot(Vec(clusteredComments[j]), Vec(clusteredComments[j])) = 0
        /\ clusteredComments[j].similarityScore = Some(One)

(***************************************************************************)
(* C10 - the result lists the items with an embedding in their input        *)
(* order, then the items without one in their input order.                  *)
(***************************************************************************)
C10_OutputOrder ==
    result.defined =>
        /\ Len(result.val) = Len(commentsWithEmbeddings)
        /\ \A a \in 1..Len(result.val) :
              /\ result.val[a].id \in 1..Len(commentsWithEmbeddings)
              /\ result.val[a].embedding = commentsWithEmbeddings[result.val[a].id].embedding
        /\ \A a \in 1..Len(result.val), b \in 1..Len(result.val) :
              a < b => ProcessedBefore(result.val[a], result.val[b])

\* the input interleaves the two kinds: without, with, without, with
C10_Witness ==
    /\ result.defined
    /\ \E i, j, k, l \in 1..Len(commentsWithEmbeddings) :
          /\ i < j /\ j < k /\ k < l
          /\ ~Embedded(commentsWithEmbeddings[i]) /\ Embedded(commentsWithEmbeddings[j])
          /\ ~Embedded(commentsWithEmbeddings[k]) /\ Embedded(commentsWithEmbeddings[l])

(***************************************************************************)
(* C11 - idempotence: clustering the output of a call again, with the same  *)
(* vectors and threshold, returns the items in the same order with the      *)
(* same cluster identifiers.                                                *)
(***************************************************************************)
C11_Idempotent ==
    (previous.defined /\ result.defined) =>
        /\ Len(result.val) = Len(previous.val)
        /\ \A j \in 1..Len(result.val) :
              /\ result.val[j].id = previous.val[j].id
              /\ result.val[j].clusterId = previous.val[j].clusterId

\* the second call has returned; the first had reordered its input and made
\* at least two clusters, one of them with two members
C11_Witness ==
    /\ previous.defined /\ result.defined
    /\ Len(previous.val) >= 3
    /\ previous.val[1].id # 1
    /\ \E a, b, c \in 1..Len(previous.val) :
          /\ a < b
          /\ previous.val[a].clusterId = previous.val[b].clusterId
          /\ previous.val[c].clusterId # previous.val[a].clusterId

(***************************************************************************)
(* C12 - dimension mismatch: a candidate makes the call throw exactly when  *)
(* the scan reaches a member of another length before it reaches a member   *)
(* that qualifies; the call then assigns nothing more and never returns a   *)
(* result; a member of another length that the scan does not reach raises   *)
(* nothing.                                                                 *)
(***************************************************************************)
\* entry i is compared before entry j: clusters in ascending order, members
\* in assignment order
ScannedBefore(i, j) ==
    \/ clusteredComments[i].clusterId < clusteredComments[j].clusterId
    \/ /\ clusteredComments[i].clusterId = clusteredComments[j].clusterId
       /\ i < j

ReachesMismatch(c) ==
    \E j \in Assigned :
        /\ ~Comparable(Vec(c), Vec(clusteredComments[j]))
        /\ \A i \in Assigned :
              ScannedBefore(i, j) => ~Meets(Vec(c), Vec(clusteredComments[i]))

C12_DimensionMismatch ==
    /\ [](pc = "error" => ~result.defined)
    /\ [][/\ pc # "error"
          /\ TakesCandidate => (ReachesMismatch(Candidate) <=> pc' = "error")
          /\ pc' = "error" => /\ clusteredComments' = clusteredComments
                              /\ clusters' = clusters
                              /\ result' = Undefined]_vars

\* the call has thrown after it had assigned two items
C12_Witness ==
    /\ pc = "error"
    /\ Len(clusteredComments) >= 2

(***************************************************************************)
(* C13 - zero norm: cosineSimilarity of a candidate and an assigned item    *)
(* of equal length, one of which has norm zero, is 0 and does not throw;    *)
(* an item with an all-zero embedding is therefore always the founder and   *)
(* the only member of its cluster.                                          *)
(***************************************************************************)
ZeroNorm(v) == Dot(v, v) = 0

C13_ZeroNorm ==
    /\ TakesCandidate =>
          \A j \in Assigned :
              (/\ Comparable(Vec(Candidate), Vec(clusteredComments[j]))
               /\ ZeroNorm(Vec(Candidate)) \/ ZeroNorm(Vec(clusteredComments[j]))) =>
                  /\ ~Throws(Vec(Candidate), Vec(clusteredComments[j]))
                  /\ cosineSimilarity(Vec(Candidate), Vec(clusteredComments[j])) = Zero
    /\ \A j \in Assigned :
          (Embedded(clusteredComments[j]) /\ ZeroNorm(Vec(clusteredComments[j]))) =>
              /\ MembersOf(clusteredComments[j].clusterId) = {j}
              /\ clusteredComments[j].similarityScore = Some(One)

\* a zero vector was assigned after a first cluster existed, and two more
\* embedded items, one of them a zero vector again, were assigned after it
C13_Witness ==
    \E i, j, k, l \in Assigned :
        /\ i < j /\ j < k /\ k < l
        /\ Embedded(clusteredComments[i]) /\ ~ZeroNorm(Vec(clusteredComments[i]))
        /\ Embedded(clusteredComments[j]) /\ ZeroNorm(Vec(clusteredComments[j]))
        /\ Embedded(clusteredComments[k]) /\ ZeroNorm(Vec(clusteredComments[k]))
        /\ Embedded(clusteredComments[l]) /\ ~ZeroNorm(Vec(clusteredComments[l]))

(***************************************************************************)
(* C14 - order dependence: when the embedded items of the input are         *)
(* A, C, B in this order with sim(A,C) < t, A is in cluster 1, C in         *)
(* cluster 2, and B in cluster 1 if sim(A,B) >= t, otherwise in cluster 2   *)
(* if sim(B,C) >= t, otherwise in the new cluster 3.                        *)
(***************************************************************************)
ApartInput ==
    /\ Len(validComments) = 3
    /\ \A i \in 1..3, j \in 1..3 : Comparable(Vec(validComments[i]), Vec(validComments[j]))
    /\ ~Meets(Vec(validComments[1]), Vec(validComments[2]))

C14_OrderDependence ==
    ApartInput =>
        /\ pc # "error"
        /\ result.defined =>
              /\ ResultOf(validComments[1].id).clusterId = 1
              /\ ResultOf(validComments[2].id).clusterId = 2
              /\ ResultOf(validComments[3].id).clusterId =
                    IF Meets(Vec(validComments[3]), Vec(validComments[1])) THEN 1
                    ELSE IF Meets(Vec(validComments[3]), Vec(validComments[2])) THEN 2
                    ELSE 3

\* the chain of C2 taken in the order A, C, B: B is similar to both, the
\* three items end in two clusters instead of one
C14_Witness ==
    /\ ApartInput
    /\ result.defined
    /\ Meets(Vec(validComments[3]), Vec(validComments[1]))
    /\ Meets(Vec(validComments[3]), Vec(validComments[2]))
    /\ {result.val[j].clusterId : j \in {j \in 1..Len(result.val) : Embedded(result.val[j])}} = {1, 2}

(***************************************************************************)
(* C20 - item conservation: the returned sequence holds every input item    *)
(* exactly once, with its id and embedding as they were, and nothing else.  *)
(***************************************************************************)
C20_ItemConservation ==
    result.defined =>
        /\ Len(result.val) = Len(commentsWithEmbeddings)
        /\ \A i \in 1..Len(commentsWithEmbeddings) :
              Cardinality({j \in 1..Len(result.val) :
                              /\ result.val[j].id = commentsWithEmbeddings[i].id
                              /\ result.val[j].embedding = commentsWithEmbeddings[i].embedding}) = 1
        /\ \A j \in 1..Len(result.val) :
              \E i \in 1..Len(commentsWithEmbeddings) :
                  result.val[j].id = commentsWithEmbeddings[i].id

\* a result with a cluster of two, another cluster and an embedding-less item
C20_Witness ==
    /\ result.defined
    /\ \E a, b, c, d \in 1..Len(result.val) :
          /\ a # b
          /\ result.val[a].clusterId = result.val[b].clusterId
          /\ Embedded(result.val[c])
          /\ result.val[c].clusterId # result.val[a].clusterId
          /\ ~Embedded(result.val[d])

(***************************************************************************)
(* C17 - recorded score: the similarityScore of an item that joined a       *)
(* cluster is its cosine similarity to the first member, in assignment      *)
(* order, of that cluster that meets the threshold; every similarityScore   *)
(* is at least the threshold and lies in [0,1].                             *)
(***************************************************************************)
\* the first member of the cluster of entry j, assigned before j, that meets
\* the threshold
FirstQualifyingMember(j) ==
    Min({m \in MembersOf(clusteredComments[j].clusterId) :
            m < j /\ Meets(Vec(clusteredComments[j]), Vec(clusteredComments[m]))})

\* the double is in [0,1]
InUnitInterval(similarity) ==
    /\ similarity.sgn >= 0
    /\ \/ similarity.num < similarity.den
       \/ similarity.num = similarity.den /\ similarity.off <= 0

\* the double is >= t
NotBelowThreshold(similarity) ==
    /\ similarity.sgn = 1
    /\ LET lhs == similarity.num * similarityThreshold.den * similarityThreshold.den
           rhs == similarityThreshold.num * similarityThreshold.num * similarity.den
       IN  lhs > rhs \/ (lhs = rhs /\ similarity.off >= 0)

\* the part of C17 about which similarity is recorded
C17_ScoreOfFirstQualifyingMember ==
    \A j \in Assigned :
        (Embedded(clusteredComments[j]) /\ ~IsFounder(j)) =>
            /\ clusteredComments[j].similarityScore.defined
            /\ clusteredComments[j].similarityScore.val =
                  cosineSimilarity(Vec(clusteredComments[j]),
                                   Vec(clusteredComments[FirstQualifyingMember(j)]))
            /\ NotBelowThreshold(clusteredComments[j].similarityScore.val)

\* C17 as stated, with the range [0,1]
C17_RecordedScore ==
    /\ C17_ScoreOfFirstQualifyingMember
    /\ \A j \in Assigned :
          clusteredComments[j].similarityScore.defined =>
              /\ NotBelowThreshold(clusteredComments[j].similarityScore.val)
              /\ InUnitInterval(clusteredComments[j].similarityScore.val)

(***************************************************************************)
(* clusterComments and its labels                                           *)
(***************************************************************************)
\* the positions of the returned array whose item is in cluster k
PositionsOf(k) == {j \in 1..Len(result.val) : result.val[j].clusterId = k}

\* the position of the p-th member of cluster k
MemberPosition(k, p) ==
    CHOOSE j \in PositionsOf(k) : Cardinality({i \in PositionsOf(k) : i < j}) = p - 1

LabelerFailed(k) == <<"generateNameForCluster", k>> \in failed

\* the label of cluster k is made from its first members, five at most, in
\* member order
LabelFromFirstFive(k) ==
    /\ clusterNames[k].kind = "generated"
    /\ Len(clusterNames[k].sample) = (IF Cardinality(PositionsOf(k)) > 5 THEN 5 ELSE Cardinality(PositionsOf(k)))
    /\ \A p \in 1..Len(clusterNames[k].sample) :
            clusterNames[k].sample[p] = result.val[MemberPosition(k, p)].id

\* C15: when clusterComments has returned, the label mapping has one entry
\* for each cluster id that occurs in the returned comments and no other key;
\* a label is made from at most the first five members of its cluster in
\* member order, and where the labeler failed the label is the default
\* "Cluster {id}", the other clusters being labeled all the same.
C15_OneLabelPerCluster ==
    /\ stage \in {"names", "clustered"} =>
            DOMAIN clusterNames \subseteq {result.val[j].clusterId : j \in 1..Len(result.val)}
    /\ stage = "clustered" =>
            /\ DOMAIN clusterNames = {result.val[j].clusterId : j \in 1..Len(result.val)}
            /\ \A k \in DOMAIN clusterNames :
                    IF LabelerFailed(k)
                    THEN clusterNames[k] = [kind |-> "default", clusterId |-> k]
                    ELSE LabelFromFirstFive(k)

\* cluster 1 got the default label after a failure, cluster 2 was labeled
\* afterwards from the first five of its six members
C15_Witness ==
    /\ stage = "clustered"
    /\ LabelerFailed(1)
    /\ clusterNames[1].kind = "default"
    /\ 2 \in DOMAIN clusterNames
    /\ Cardinality(PositionsOf(2)) = 6
    /\ clusterNames[2].kind = "generated"
    /\ Len(clusterNames[2].sample) = 5

(***************************************************************************)
(* processComments                                                          *)
(***************************************************************************)
Failed(call, key) == <<call, key>> \in failed

\* the cluster ids of the array clusterComments returned
ResultClusterIds == {result.val[j].clusterId : j \in 1..Len(result.val)}

CategorizationComplete ==
    /\ Len(categorizedComments) = Len(comments)
    /\ \A i \in 1..Len(comments) : categorizedComments[i].id = comments[i].id

ClusteringStarted == commentsWithEmbeddings # <<>> \/ pc # "idle"

ClusteringComplete ==
    /\ result.defined
    /\ Len(result.val) = Len(comments)
    /\ DOMAIN clusterNames = ResultClusterIds

FeaturesStarted == featureIndex > 0 \/ clusterFeatures # <<>> \/ allFeatures # <<>>

FeaturesComplete == result.defined /\ featureIndex = Cardinality(ResultClusterIds)

ResponsesStarted == commentsWithResponses # <<>>

ResponsesComplete == Len(commentsWithResponses) = Len(comments)

C18_StagesInOrder ==
    /\ ClusteringStarted => CategorizationComplete
    /\ FeaturesStarted => ClusteringComplete
    /\ ResponsesStarted => FeaturesComplete
    /\ saves <= 1
    /\ resultsFile.defined <=> saves = 1
    /\ saves = 1 =>
            /\ CategorizationComplete
            /\ ClusteringComplete
            /\ FeaturesComplete
            /\ ResponsesComplete
    /\ stage \in {"saved", "completed"} => saves = 1
    /\ stage \in {"thrown", "exited"} => saves = 0
    /\ stage = "thrown" => ENABLED MainCatch
    /\ stage = "exited" <=> exitCode.defined
    /\ exitCode.defined => exitCode.val = 1

\* a run over two comments in two clusters has gone through the four
\* stages and written the results file once
C18_Witness ==
    /\ stage = "completed"
    /\ Len(comments) = 2
    /\ Cardinality(ResultClusterIds) = 2
    /\ CategorizationComplete
    /\ ClusteringComplete
    /\ FeaturesComplete
    /\ ResponsesComplete
    /\ saves = 1
    /\ ~exitCode.defined

\* a run whose clustering threw on embeddings of different lengths has
\* exited with status 1 without writing the results file
C18_MismatchExit ==
    /\ stage = "exited"
    /\ pc = "error"
    /\ CategorizationComplete
    /\ ~resultsFile.defined
    /\ exitCode = Some(1)

(***************************************************************************)
(* main                                                                     *)
(***************************************************************************)
\* C19: the generation of the catch runs only where the comments file was
\* missing or invalid; where the file loaded, its comments are the ones
\* handed to processComments unless regeneration is allowed and the answer
\* is y or Y, and then generateComments has been called exactly once; no
\* run calls generateComments more than once.
C19_SourceSelection ==
    /\ fallback => ~loaded.defined
    /\ generateCalls <= 1
    /\ stage = "categorize" /\ loaded.defined =>
            IF allowRegenerateComments /\ answer.defined /\ answer.val \in {"y", "Y"}
            THEN generateCalls = 1
            ELSE generateCalls = 0 /\ comments = loaded.val

(***************************************************************************)
(* Cluster identifiers                                                      *)
(***************************************************************************)
\* the cluster identifiers the assigned items carry
CarriedIds == {clusteredComments[j].clusterId : j \in 1..Len(clusteredComments)}

\* the sum of the counts of a count-by-key object
RECURSIVE TotalOf(_, _)
TotalOf(counts, keys) ==
    IF keys = {} THEN 0
    ELSE LET k == CHOOSE x \in keys : TRUE
         IN  counts[k] + TotalOf(counts, keys \ {k})

\* C21: after every step of performClustering the cluster identifiers carried
\* by the assigned items are exactly 1..k, k being the number of clusters
\* created so far, the i-th created cluster having identifier i; and in the
\* saved results the counts of countByClusters have the keys 1..k and sum to
\* the number of comments.
C21_IdentifierDensity ==
    /\ CarriedIds = 1..Len(clusters)
    /\ \A i \in 1..Len(clusters) : clusters[i] = i
    /\ resultsFile.defined =>
            LET counts == resultsFile.val.metadata.clusters
            IN  /\ DOMAIN counts = 1..Len(clusters)
                /\ \A k \in DOMAIN counts : counts[k] >= 1
                /\ TotalOf(counts, DOMAIN counts) = Len(resultsFile.val.comments)
                /\ TotalOf(counts, DOMAIN counts) = Len(comments)
                /\ TotalOf(counts, DOMAIN counts) = resultsFile.val.metadata.totalComments

\* two comments in two clusters have been saved with a count of one each
C21_Witness ==
    /\ resultsFile.defined
    /\ Len(comments) = 2
    /\ clusters = <<1, 2>>
    /\ CarriedIds = {1, 2}
    /\ DOMAIN resultsFile.val.metadata.clusters = {1, 2}
    /\ resultsFile.val.metadata.clusters[1] = 1
    /\ resultsFile.val.metadata.clusters[2] = 1

\* both comments have been saved in cluster 1, counted twice
C21_SharedCluster ==
    /\ resultsFile.defined
    /\ clusters = <<1>>
    /\ resultsFile.val.metadata.clusters[1] = 2
====
